---- MODULE Spec2Model ----
(***************************************************************************)
(* QuantumTicTacToeGame (townService/src/town/games): the orchestrator of  *)
(* three TicTacToeGame boards.  The orchestrator is translated from        *)
(* QuantumTicTacToeGame.ts lines 23-368; the single board engine           *)
(* (TicTacToeGame) is not part of the sources at hand and is modelled from *)
(* section 4.1 of the specification.                                       *)
(***************************************************************************)
EXTENDS Integers, Sequences, FiniteSets, TLC

VARIABLES state, _games, _xScore, _oScore, _moveCount, lastResult

vars == <<state, _games, _xScore, _oScore, _moveCount, lastResult>>

(***************************************************************************)
(* Values                                                                  *)
(***************************************************************************)
\* the three players of the test suite (player1, player2, player3)
PlayerOrder == <<"player1", "player2", "player3">>

Players == {PlayerOrder[i] : i \in 1..Len(PlayerOrder)}

\* an unset optional field (x, o, winner)
undefined == "undefined"

Boards == {"A", "B", "C"}

\* rows and columns of a board are 0..BoardSize-1
BoardSize == 3

Coords == 0..(BoardSize - 1)

\* the coordinate of a synthesized pass
Blank == -1

\* error messages of InvalidParametersError, named as the error taxonomy does
PLAYER_ALREADY_IN_GAME_MESSAGE == "AlreadySeated"

GAME_FULL_MESSAGE == "SeatsFull"

PLAYER_NOT_IN_GAME_MESSAGE == "NotSeated"

GAME_NOT_IN_PROGRESS_MESSAGE == "MatchNotInProgress"

INVALID_MOVE_MESSAGE == "IllegalTarget"

MOVE_NOT_YOUR_TURN_MESSAGE == "OutOfTurn"

\* no error: the call returned
NoError == "none"

(***************************************************************************)
(* Bounds of the exploration                                               *)
(***************************************************************************)
\* cells of each board a move of Spec may target: the first NumCells of CellOrder
NumCells == 2

\* Spec accepts moves while _moveCount < MaxMoves
MaxMoves == 3

\* SpecLate accepts moves while _moveCount < MaxLateMoves
MaxLateMoves == 17

CellOrder ==
  << <<0, 0>>, <<0, 1>>, <<0, 2>>, <<1, 1>>, <<2, 2>>,
     <<1, 0>>, <<1, 2>>, <<2, 0>>, <<2, 1>> >>

AllCells == Coords \X Coords

CellsUpTo(n) == {CellOrder[i] : i \in 1..(IF n < Len(CellOrder) THEN n ELSE Len(CellOrder))}

(***************************************************************************)
(* The single board engine (TicTacToeGame), from section 4.1               *)
(***************************************************************************)
\* a new board: empty log, not terminal, no winning mark
NewTicTacToeGame == [moves |-> <<>>, status |-> "IN_PROGRESS", winner |-> undefined]

\* the grid of a board: the mark of the real move recorded at (row, col), if any
BoardCell(game, row, col) ==
  LET hits == {i \in 1..Len(game.moves) : game.moves[i].row = row /\ game.moves[i].col = col}
  IN  IF hits = {} THEN ""
      ELSE game.moves[CHOOSE i \in hits : \A j \in hits : j <= i].gamePiece

\* the eight lines of a board
Lines ==
  {{<<r, c>> : c \in Coords} : r \in Coords} \cup
  {{<<r, c>> : r \in Coords} : c \in Coords} \cup
  {{<<i, i>> : i \in Coords}, {<<i, BoardSize - 1 - i>> : i \in Coords}}

HasLine(game, piece) ==
  \E line \in Lines : \A cell \in line : BoardCell(game, cell[1], cell[2]) = piece

BoardFull(game) ==
  \A cell \in AllCells : BoardCell(game, cell[1], cell[2]) # ""

\* recompute the terminal status: three in a row wins, nine filled cells draw
TicTacToeCheckForGameEnding(game) ==
  IF HasLine(game, "X") THEN [game EXCEPT !.status = "OVER", !.winner = "X"]
  ELSE IF HasLine(game, "O") THEN [game EXCEPT !.status = "OVER", !.winner = "O"]
  ELSE IF BoardFull(game) THEN [game EXCEPT !.status = "OVER", !.winner = undefined]
  ELSE game

\* applyRealMove / a pass handed to _applyMove: a pass only extends the log
TicTacToeApplyMove(game, move) ==
  LET logged == [game EXCEPT !.moves = Append(@, move)]
  IN  IF move.row = Blank THEN logged ELSE TicTacToeCheckForGameEnding(logged)

\* applyPassMove: the log grows by one pass, the grid and the status stay
TicTacToeApplyPass(game, gamePiece) ==
  [game EXCEPT !.moves = Append(@, [row |-> Blank, col |-> Blank, gamePiece |-> gamePiece])]

\* join and leave reach the boards only as per-player bookkeeping
TicTacToeJoin(game, player) == game

TicTacToeLeave(game, player) == game

(***************************************************************************)
(* The orchestrator object and the outcome of a call                       *)
(***************************************************************************)
NoneVisible == [b \in Boards |-> [r \in Coords |-> [c \in Coords |-> FALSE]]]

\* the object after the constructor
NewGame ==
  [state |-> [moves |-> <<>>, status |-> "WAITING_TO_START", xScore |-> 0, oScore |-> 0,
              publiclyVisible |-> NoneVisible, x |-> undefined, o |-> undefined,
              winner |-> undefined],
   games |-> [b \in Boards |-> NewTicTacToeGame],
   xScore |-> 0, oScore |-> 0, moveCount |-> 0]

\* the object in the current state
This ==
  [state |-> state, games |-> _games, xScore |-> _xScore, oScore |-> _oScore,
   moveCount |-> _moveCount]

\* F applied to the value of v, which is computed once
Bind(v, F(_)) == CHOOSE result \in {F(x) : x \in {v}} : TRUE

Return(this) == [this |-> this, err |-> NoError]

Throw(this, message) == [this |-> this, err |-> message]

(***************************************************************************)
(* _join                                                                   *)
(***************************************************************************)
\* game.join(player) on each of the three boards
JoinBoards(this, player) ==
  [this EXCEPT !.games = [b \in Boards |-> TicTacToeJoin(this.games[b], player)]]

\* game.leave(player) on each of the three boards
LeaveBoards(this, player) ==
  [this EXCEPT !.games = [b \in Boards |-> TicTacToeLeave(this.games[b], player)]]

\* lines 99-105 with || for &&: in progress once one seat is taken
StartIfAnySeated(this) ==
  IF this.state.x # undefined \/ this.state.o # undefined
  THEN [this EXCEPT !.state.status = "IN_PROGRESS"]
  ELSE this

\* lines 99-105: in progress once both seats are taken
StartIfSeated(this) ==
  IF this.state.x # undefined /\ this.state.o # undefined
  THEN [this EXCEPT !.state.status = "IN_PROGRESS"]
  ELSE this

\* _join without the test of lines 69-71 that the player is seated already
_joinNoSeatedCheck(this, player) ==
  IF this.state.x = undefined
  THEN Return(StartIfSeated(JoinBoards([this EXCEPT !.state.x = player], player)))
  ELSE IF this.state.o = undefined
  THEN Return(StartIfSeated(JoinBoards([this EXCEPT !.state.o = player], player)))
  ELSE Throw(this, GAME_FULL_MESSAGE)

_join(this, player) ==
  IF this.state.x = player \/ this.state.o = player
  THEN Throw(this, PLAYER_ALREADY_IN_GAME_MESSAGE)
  ELSE IF this.state.x = undefined
  THEN Return(StartIfSeated(JoinBoards([this EXCEPT !.state.x = player], player)))
  ELSE IF this.state.o = undefined
  THEN Return(StartIfSeated(JoinBoards([this EXCEPT !.state.o = player], player)))
  ELSE Throw(this, GAME_FULL_MESSAGE)

(***************************************************************************)
(* _leave                                                                  *)
(***************************************************************************)
\* _leave whose reset before the start forgets to vacate the seat (line 161)
_leaveKeepSeat(this, player) ==
  IF this.state.x # player /\ this.state.o # player
  THEN Throw(this, PLAYER_NOT_IN_GAME_MESSAGE)
  ELSE IF this.state.status = "IN_PROGRESS"
  THEN IF this.state.x = player
       THEN Return(LeaveBoards([this EXCEPT !.state.status = "OVER",
                                            !.state.winner = this.state.o,
                                            !.state.x = undefined], player))
       ELSE Return(LeaveBoards([this EXCEPT !.state.status = "OVER",
                                            !.state.winner = this.state.x,
                                            !.state.o = undefined], player))
  ELSE IF this.state.status = "WAITING_TO_START"
  THEN IF this.state.x = player
       THEN Return(LeaveBoards([this EXCEPT !.state.moves = <<>>,
                                            !.state.status = "WAITING_TO_START",
                                            !.state.xScore = 0,
                                            !.state.oScore = 0,
                                            !.state.publiclyVisible = NoneVisible,
                                            !.state.o = undefined], player))
       ELSE Return(this)
  ELSE Return(this)

\* _leave without the test of lines 110-112 that the player is seated
_leaveNoSeatedCheck(this, player) ==
  IF this.state.status = "IN_PROGRESS"
  THEN IF this.state.x = player
       THEN Return(LeaveBoards([this EXCEPT !.state.status = "OVER",
                                            !.state.winner = this.state.o,
                                            !.state.x = undefined], player))
       ELSE Return(LeaveBoards([this EXCEPT !.state.status = "OVER",
                                            !.state.winner = this.state.x,
                                            !.state.o = undefined], player))
  ELSE IF this.state.status = "WAITING_TO_START"
  THEN IF this.state.x = player
       THEN Return(LeaveBoards([this EXCEPT !.state.moves = <<>>,
                                            !.state.status = "WAITING_TO_START",
                                            !.state.xScore = 0,
                                            !.state.oScore = 0,
                                            !.state.publiclyVisible = NoneVisible,
                                            !.state.x = undefined,
                                            !.state.o = undefined], player))
       ELSE Return(this)
  ELSE Return(this)

_leave(this, player) ==
  IF this.state.x # player /\ this.state.o # player
  THEN Throw(this, PLAYER_NOT_IN_GAME_MESSAGE)
  ELSE IF this.state.status = "IN_PROGRESS"
  THEN IF this.state.x = player
       THEN Return(LeaveBoards([this EXCEPT !.state.status = "OVER",
                                            !.state.winner = this.state.o,
                                            !.state.x = undefined], player))
       ELSE Return(LeaveBoards([this EXCEPT !.state.status = "OVER",
                                            !.state.winner = this.state.x,
                                            !.state.o = undefined], player))
  ELSE IF this.state.status = "WAITING_TO_START"
  THEN IF this.state.x = player
       THEN Return(LeaveBoards([this EXCEPT !.state.moves = <<>>,
                                            !.state.status = "WAITING_TO_START",
                                            !.state.xScore = 0,
                                            !.state.oScore = 0,
                                            !.state.publiclyVisible = NoneVisible,
                                            !.state.x = undefined,
                                            !.state.o = undefined], player))
       ELSE Return(this)
  ELSE Return(this)

(***************************************************************************)
(* _validateMove                                                           *)
(***************************************************************************)
\* line 190 (and 234): a logged move of the board sits on the targeted cell
isOccupied(m, move) == m.col = move.col /\ m.row = move.row

\* line 202: the piece whose turn it is
expectedPiece(moveCount) == IF moveCount % 2 = 0 THEN "X" ELSE "O"

\* _validateMove without the turn check of lines 201-207
_validateMoveNoTurn(this, move) ==
  LET targetGame == this.games[move.board]
  IN  IF targetGame.status = "OVER" /\ Len(targetGame.moves) # 0
      THEN INVALID_MOVE_MESSAGE
      ELSE IF \E i \in 1..Len(targetGame.moves) :
                /\ isOccupied(targetGame.moves[i], move)
                /\ \/ this.state.publiclyVisible[move.board][move.row][move.col]
                   \/ targetGame.moves[i].gamePiece = move.gamePiece
      THEN INVALID_MOVE_MESSAGE
      ELSE IF this.state.status # "IN_PROGRESS"
      THEN GAME_NOT_IN_PROGRESS_MESSAGE
      ELSE NoError

\* _validateMove with the status check of lines 209-212 made first
_validateMoveStatusFirst(this, move) ==
  LET targetGame == this.games[move.board]
  IN  IF this.state.status # "IN_PROGRESS"
      THEN GAME_NOT_IN_PROGRESS_MESSAGE
      ELSE IF targetGame.status = "OVER" /\ Len(targetGame.moves) # 0
      THEN INVALID_MOVE_MESSAGE
      ELSE IF \E i \in 1..Len(targetGame.moves) :
                /\ isOccupied(targetGame.moves[i], move)
                /\ \/ this.state.publiclyVisible[move.board][move.row][move.col]
                   \/ targetGame.moves[i].gamePiece = move.gamePiece
      THEN INVALID_MOVE_MESSAGE
      ELSE IF move.gamePiece # expectedPiece(this.moveCount)
      THEN MOVE_NOT_YOUR_TURN_MESSAGE
      ELSE NoError

\* _validateMove without the visibility check of lines 193-194
_validateMoveNoVisible(this, move) ==
  LET targetGame == this.games[move.board]
  IN  IF targetGame.status = "OVER" /\ Len(targetGame.moves) # 0
      THEN INVALID_MOVE_MESSAGE
      ELSE IF \E i \in 1..Len(targetGame.moves) :
                /\ isOccupied(targetGame.moves[i], move)
                /\ targetGame.moves[i].gamePiece = move.gamePiece
      THEN INVALID_MOVE_MESSAGE
      ELSE IF move.gamePiece # expectedPiece(this.moveCount)
      THEN MOVE_NOT_YOUR_TURN_MESSAGE
      ELSE IF this.state.status # "IN_PROGRESS"
      THEN GAME_NOT_IN_PROGRESS_MESSAGE
      ELSE NoError

\* _validateMove without the closed-board check of lines 182-185
_validateMoveNoBoard(this, move) ==
  LET targetGame == this.games[move.board]
  IN  IF \E i \in 1..Len(targetGame.moves) :
           /\ isOccupied(targetGame.moves[i], move)
           /\ \/ this.state.publiclyVisible[move.board][move.row][move.col]
              \/ targetGame.moves[i].gamePiece = move.gamePiece
      THEN INVALID_MOVE_MESSAGE
      ELSE IF move.gamePiece # expectedPiece(this.moveCount)
      THEN MOVE_NOT_YOUR_TURN_MESSAGE
      ELSE IF this.state.status # "IN_PROGRESS"
      THEN GAME_NOT_IN_PROGRESS_MESSAGE
      ELSE NoError

\* _validateMove without the own-mark check of lines 195-197
_validateMoveNoOwn(this, move) ==
  LET targetGame == this.games[move.board]
  IN  IF targetGame.status = "OVER" /\ Len(targetGame.moves) # 0
      THEN INVALID_MOVE_MESSAGE
      ELSE IF \E i \in 1..Len(targetGame.moves) :
                /\ isOccupied(targetGame.moves[i], move)
                /\ this.state.publiclyVisible[move.board][move.row][move.col]
      THEN INVALID_MOVE_MESSAGE
      ELSE IF move.gamePiece # expectedPiece(this.moveCount)
      THEN MOVE_NOT_YOUR_TURN_MESSAGE
      ELSE IF this.state.status # "IN_PROGRESS"
      THEN GAME_NOT_IN_PROGRESS_MESSAGE
      ELSE NoError

\* the error _validateMove throws, or NoError
_validateMove(this, move) ==
  LET targetGame == this.games[move.board]
  IN  IF targetGame.status = "OVER" /\ Len(targetGame.moves) # 0
      THEN INVALID_MOVE_MESSAGE
      ELSE IF \E i \in 1..Len(targetGame.moves) :
                /\ isOccupied(targetGame.moves[i], move)
                /\ \/ this.state.publiclyVisible[move.board][move.row][move.col]
                   \/ targetGame.moves[i].gamePiece = move.gamePiece
      THEN INVALID_MOVE_MESSAGE
      ELSE IF move.gamePiece # expectedPiece(this.moveCount)
      THEN MOVE_NOT_YOUR_TURN_MESSAGE
      ELSE IF this.state.status # "IN_PROGRESS"
      THEN GAME_NOT_IN_PROGRESS_MESSAGE
      ELSE NoError

(***************************************************************************)
(* _applyMoveWithBlanks, _checkForWins, _checkForGameEnding                *)
(***************************************************************************)
\* move: [playerID, board, row, col, gamePiece]; targetBoard names targetGame
\* _applyMoveWithBlanks without the status test of line 285 on the boards that
\* are not targeted: a terminal board receives passes too
_applyMoveWithBlanksAll(this, targetBoard, move) ==
  [this EXCEPT !.games =
     [b \in Boards |->
        IF b = targetBoard
        THEN IF this.games[b].status = "IN_PROGRESS"
             THEN TicTacToeApplyMove(this.games[b],
                    [row |-> move.row, col |-> move.col, gamePiece |-> move.gamePiece])
             ELSE this.games[b]
        ELSE TicTacToeApplyPass(this.games[b], move.gamePiece)]]

_applyMoveWithBlanks(this, targetBoard, move) ==
  [this EXCEPT !.games =
     [b \in Boards |->
        IF this.games[b].status = "IN_PROGRESS"
        THEN IF b = targetBoard
             THEN TicTacToeApplyMove(this.games[b],
                    [row |-> move.row, col |-> move.col, gamePiece |-> move.gamePiece])
             ELSE TicTacToeApplyPass(this.games[b], move.gamePiece)
        ELSE this.games[b]]]

\* the seat a board's winning mark belongs to (game.state.winner === this.state.x / o)
WonBy(this, b, piece) ==
  this.games[b].status = "OVER" /\ this.games[b].winner = piece

\* _checkForWins without the test of line 316: a board that is over and not
\* X's counts for O, a drawn board too
_checkForWinsElseO(this) ==
  LET localXScore == Cardinality({b \in Boards : WonBy(this, b, "X")})
      localOScore == Cardinality({b \in Boards :
                        this.games[b].status = "OVER" /\ ~WonBy(this, b, "X")})
  IN  [this EXCEPT !.state.xScore = localXScore, !.state.oScore = localOScore,
                   !.xScore = localXScore, !.oScore = localOScore]

\* _checkForWins passing over a board that has a revealed cell
_checkForWinsHiddenOnly(this) ==
  LET hidden(b)   == \A r \in Coords, c \in Coords : ~this.state.publiclyVisible[b][r][c]
      localXScore == Cardinality({b \in Boards : hidden(b) /\ WonBy(this, b, "X")})
      localOScore == Cardinality({b \in Boards :
                        hidden(b) /\ ~WonBy(this, b, "X") /\ WonBy(this, b, "O")})
  IN  [this EXCEPT !.state.xScore = localXScore, !.state.oScore = localOScore,
                   !.xScore = localXScore, !.oScore = localOScore]

_checkForWins(this) ==
  LET localXScore == Cardinality({b \in Boards : WonBy(this, b, "X")})
      localOScore == Cardinality({b \in Boards : ~WonBy(this, b, "X") /\ WonBy(this, b, "O")})
  IN  [this EXCEPT !.state.xScore = localXScore, !.state.oScore = localOScore,
                   !.xScore = localXScore, !.oScore = localOScore]

\* _checkForGameEnding left out of applyMove: the match never ends by play
_checkForGameEndingSkipped(this) == this

\* _checkForGameEnding that gives a tie to X (>= for > in line 351)
_checkForGameEndingTieX(this) ==
  LET isOver == \A b \in Boards : this.games[b].status = "OVER"
      winner == IF this.xScore >= this.oScore THEN this.state.x
                ELSE IF this.xScore < this.oScore THEN this.state.o
                ELSE undefined
  IN  IF isOver
      THEN [this EXCEPT !.state.status = "OVER", !.state.winner = winner]
      ELSE this

\* _checkForGameEnding that ends the match only when there is a winner
_checkForGameEndingNoTie(this) ==
  LET isOver == \A b \in Boards : this.games[b].status = "OVER"
      winner == IF this.xScore > this.oScore THEN this.state.x
                ELSE IF this.xScore < this.oScore THEN this.state.o
                ELSE undefined
  IN  IF isOver /\ winner # undefined
      THEN [this EXCEPT !.state.status = "OVER", !.state.winner = winner]
      ELSE this

_checkForGameEnding(this) ==
  LET isOver == \A b \in Boards : this.games[b].status = "OVER"
      winner == IF this.xScore > this.oScore THEN this.state.x
                ELSE IF this.xScore < this.oScore THEN this.state.o
                ELSE undefined
  IN  IF isOver
      THEN [this EXCEPT !.state.status = "OVER", !.state.winner = winner]
      ELSE this

(***************************************************************************)
(* applyMove                                                               *)
(***************************************************************************)
\* lines 218-223: the piece derived from the submitting player
cleanPiece(this, playerID) == IF playerID = this.state.x THEN "X" ELSE "O"

\* lines 232-237: the first logged move on the targeted cell while it is hidden
CollidingIndex(this, move) ==
  LET moves == this.games[move.board].moves
      hits  == {i \in 1..Len(moves) :
                  /\ isOccupied(moves[i], move)
                  /\ ~this.state.publiclyVisible[move.board][move.row][move.col]}
  IN  IF hits = {} THEN 0 ELSE CHOOSE i \in hits : \A j \in hits : i <= j

\* the collision branch without the _moveCount++ of line 241
applyCollisionNoCount(this, move, m) ==
  LET shown  == [this EXCEPT !.state.publiclyVisible[move.board][move.row][move.col] = TRUE]
      logged == [shown EXCEPT !.state.moves = Append(@,
                    [board |-> move.board, row |-> move.row, col |-> move.col,
                     gamePiece |-> move.gamePiece])]
  IN  Bind(logged, LAMBDA t : _applyMoveWithBlanks(t, move.board,
        [playerID |-> move.playerID, board |-> move.board, row |-> Blank, col |-> Blank,
         gamePiece |-> m.gamePiece]))

\* the collision branch handing the board the incoming move instead of a pass
applyCollisionOverwrite(this, move, m) ==
  LET shown  == [this EXCEPT !.state.publiclyVisible[move.board][move.row][move.col] = TRUE,
                             !.moveCount = @ + 1]
      logged == [shown EXCEPT !.state.moves = Append(@,
                    [board |-> move.board, row |-> move.row, col |-> move.col,
                     gamePiece |-> move.gamePiece])]
  IN  Bind(logged, LAMBDA t : _applyMoveWithBlanks(t, move.board, move))

\* the collision branch handing the board the mark on the cell at the cell's
\* coordinates instead of blanks (line 253)
applyCollisionRemark(this, move, m) ==
  LET shown  == [this EXCEPT !.state.publiclyVisible[move.board][move.row][move.col] = TRUE,
                             !.moveCount = @ + 1]
      logged == [shown EXCEPT !.state.moves = Append(@,
                    [board |-> move.board, row |-> move.row, col |-> move.col,
                     gamePiece |-> move.gamePiece])]
  IN  Bind(logged, LAMBDA t : _applyMoveWithBlanks(t, move.board,
        [playerID |-> move.playerID, board |-> move.board, row |-> move.row,
         col |-> move.col, gamePiece |-> m.gamePiece]))

\* the collision branch revealing the cell with row and column exchanged
applyCollisionTransposed(this, move, m) ==
  LET shown  == [this EXCEPT !.state.publiclyVisible[move.board][move.col][move.row] = TRUE,
                             !.moveCount = @ + 1]
      logged == [shown EXCEPT !.state.moves = Append(@,
                    [board |-> move.board, row |-> move.row, col |-> move.col,
                     gamePiece |-> move.gamePiece])]
  IN  Bind(logged, LAMBDA t : _applyMoveWithBlanks(t, move.board,
        [playerID |-> move.playerID, board |-> move.board, row |-> Blank, col |-> Blank,
         gamePiece |-> m.gamePiece]))

\* the collision branch without the reveal of line 240
applyCollisionHidden(this, move, m) ==
  LET counted == [this EXCEPT !.moveCount = @ + 1]
      logged  == [counted EXCEPT !.state.moves = Append(@,
                    [board |-> move.board, row |-> move.row, col |-> move.col,
                     gamePiece |-> move.gamePiece])]
  IN  Bind(logged, LAMBDA t : _applyMoveWithBlanks(t, move.board,
        [playerID |-> move.playerID, board |-> move.board, row |-> Blank, col |-> Blank,
         gamePiece |-> m.gamePiece]))

\* lines 239-254: the collision branch
applyCollision(this, move, m) ==
  LET shown  == [this EXCEPT !.state.publiclyVisible[move.board][move.row][move.col] = TRUE,
                             !.moveCount = @ + 1]
      logged == [shown EXCEPT !.state.moves = Append(@,
                    [board |-> move.board, row |-> move.row, col |-> move.col,
                     gamePiece |-> move.gamePiece])]
  IN  Bind(logged, LAMBDA t : _applyMoveWithBlanks(t, move.board,
        [playerID |-> move.playerID, board |-> move.board, row |-> Blank, col |-> Blank,
         gamePiece |-> m.gamePiece]))

\* the plain branch without the append of lines 266-269 to the global log
applyPlainNoLog(this, move) ==
  LET counted == [this EXCEPT !.moveCount = @ + 1]
  IN  Bind(counted, LAMBDA t : _applyMoveWithBlanks(t, move.board, move))

\* the plain branch counting the move twice (line 271 repeated)
applyPlainCountTwice(this, move) ==
  LET logged == [this EXCEPT !.state.moves = Append(@,
                    [board |-> move.board, row |-> move.row, col |-> move.col,
                     gamePiece |-> move.gamePiece]),
                             !.moveCount = @ + 2]
  IN  Bind(logged, LAMBDA t : _applyMoveWithBlanks(t, move.board, move))

\* the plain branch setting the visibility flag as the collision branch does
applyPlainReveal(this, move) ==
  LET logged == [this EXCEPT !.state.moves = Append(@,
                    [board |-> move.board, row |-> move.row, col |-> move.col,
                     gamePiece |-> move.gamePiece]),
                             !.state.publiclyVisible[move.board][move.row][move.col] = TRUE,
                             !.moveCount = @ + 1]
  IN  Bind(logged, LAMBDA t : _applyMoveWithBlanks(t, move.board, move))

\* lines 265-273: the move lands on the board
applyPlain(this, move) ==
  LET logged == [this EXCEPT !.state.moves = Append(@,
                    [board |-> move.board, row |-> move.row, col |-> move.col,
                     gamePiece |-> move.gamePiece]),
                             !.moveCount = @ + 1]
  IN  Bind(logged, LAMBDA t : _applyMoveWithBlanks(t, move.board, move))

\* applyMove that validates only after the move is logged
applyMoveValidateLate(this, given) ==
  LET move   == [given EXCEPT !.gamePiece = cleanPiece(this, given.playerID)]
      error  == _validateMove(this, move)
      index  == CollidingIndex(this, move)
      logged == [this EXCEPT !.state.moves = Append(@,
                    [board |-> move.board, row |-> move.row, col |-> move.col,
                     gamePiece |-> move.gamePiece])]
      moved  == IF index # 0
                THEN applyCollision(this, move, this.games[move.board].moves[index])
                ELSE applyPlain(this, move)
  IN  IF error # NoError
      THEN Throw(logged, error)
      ELSE Return(Bind(Bind(moved, _checkForWins), _checkForGameEnding))

\* applyMove without the cleaning of lines 218-223: the piece the caller sent
\* is the piece played
applyMoveTrusting(this, given) ==
  LET move  == given
      error == _validateMove(this, move)
      index == CollidingIndex(this, move)
      moved == IF index # 0
               THEN applyCollision(this, move, this.games[move.board].moves[index])
               ELSE applyPlain(this, move)
  IN  IF error # NoError
      THEN Throw(this, error)
      ELSE Return(Bind(Bind(moved, _checkForWins), _checkForGameEnding))

\* given: [playerID, board, row, col, gamePiece] as the caller sends it
applyMove(this, given) ==
  LET move  == [given EXCEPT !.gamePiece = cleanPiece(this, given.playerID)]
      error == _validateMove(this, move)
      index == CollidingIndex(this, move)
      moved == IF index # 0
               THEN applyCollision(this, move, this.games[move.board].moves[index])
               ELSE applyPlain(this, move)
  IN  IF error # NoError
      THEN Throw(this, error)
      ELSE Return(Bind(Bind(moved, _checkForWins), _checkForGameEnding))

(***************************************************************************)
(* The state machine: one step per call of join, leave or applyMove        *)
(***************************************************************************)
\* the object after a call, and what the caller saw: the error thrown, or that
\* the call returned
Commit(result, returned) ==
  /\ state' = result.this.state
  /\ _games' = result.this.games
  /\ _xScore' = result.this.xScore
  /\ _oScore' = result.this.oScore
  /\ _moveCount' = result.this.moveCount
  /\ lastResult' = IF result.err = NoError THEN returned ELSE result.err

Holds(this) ==
  /\ state = this.state
  /\ _games = this.games
  /\ _xScore = this.xScore
  /\ _oScore = this.oScore
  /\ _moveCount = this.moveCount

\* the piece the callers of the test suite send along (test line 131)
sentPiece(player) == IF player = "player1" THEN "X" ELSE "O"

\* The callers of a step: the seated players and one player without a seat.  The
\* object keeps nothing of a player who holds no seat, so those are interchangeable.
Callers ==
  LET seated   == {p \in Players : p = state.x \/ p = state.o}
      unseated == {i \in 1..Len(PlayerOrder) : PlayerOrder[i] \notin seated}
  IN  seated \cup {PlayerOrder[i] : i \in {j \in unseated : \A k \in unseated : j <= k}}

\* the moves a caller may submit on the given cells
MoveInputs(cells) ==
  {[playerID |-> p, board |-> b, row |-> cell[1], col |-> cell[2],
    gamePiece |-> sentPiece(p)] : p \in Callers, b \in Boards, cell \in cells}

Init == Holds(NewGame) /\ lastResult = "constructed"

JoinStep ==
  /\ \E player \in Callers : Commit(_join(This, player), "joined")

LeaveStep ==
  /\ \E player \in Callers : Commit(_leave(This, player), "left")

MoveStep ==
  /\ _moveCount < MaxMoves
  /\ \E given \in MoveInputs(CellsUpTo(NumCells)) : Commit(applyMove(This, given), "moved")

Next == JoinStep \/ LeaveStep \/ MoveStep

Spec == Init /\ [][Next]_vars

(***************************************************************************)
(* Late play: the matches of the test suite, replayed up to their last     *)
(* moves, and every call from there on any cell                            *)
(***************************************************************************)
\* test lines 304-331: the tie, to two moves before its end
TieOpening ==
  << <<"player1", "A", 0, 0>>, <<"player2", "A", 0, 0>>, <<"player1", "A", 1, 1>>,
     <<"player2", "B", 0, 0>>, <<"player1", "A", 2, 2>>, <<"player2", "B", 1, 1>>,
     <<"player1", "C", 0, 0>>, <<"player2", "B", 2, 2>>, <<"player1", "C", 1, 1>>,
     <<"player2", "C", 0, 1>>, <<"player1", "C", 2, 1>>, <<"player2", "C", 2, 0>>,
     <<"player1", "C", 0, 2>>, <<"player2", "C", 2, 2>> >>

\* test lines 269-294: the match O wins, to its last O move, with one more
\* collision on board C
OWinsOpening ==
  << <<"player1", "A", 0, 0>>, <<"player2", "A", 0, 0>>, <<"player1", "A", 1, 1>>,
     <<"player2", "B", 0, 0>>, <<"player1", "A", 2, 2>>, <<"player2", "B", 1, 1>>,
     <<"player1", "C", 0, 0>>, <<"player2", "B", 2, 2>>, <<"player1", "C", 1, 0>>,
     <<"player2", "C", 0, 1>>, <<"player1", "C", 0, 1>>, <<"player2", "C", 1, 1>>,
     <<"player1", "C", 1, 1>>, <<"player2", "C", 0, 0>> >>

\* test lines 236-259: the match X wins, to its last move, with collisions on
\* board C
XWinsOpening ==
  << <<"player1", "A", 0, 0>>, <<"player2", "A", 0, 0>>, <<"player1", "A", 1, 1>>,
     <<"player2", "B", 0, 0>>, <<"player1", "A", 2, 2>>, <<"player2", "B", 1, 1>>,
     <<"player1", "C", 0, 0>>, <<"player2", "B", 2, 2>>, <<"player1", "C", 1, 1>>,
     <<"player2", "C", 0, 1>>, <<"player1", "C", 0, 1>>, <<"player2", "C", 1, 1>>,
     <<"player1", "C", 0, 2>>, <<"player2", "C", 0, 2>> >>

Openings == {TieOpening, OWinsOpening, XWinsOpening}

\* the object after the calls of a script, each made on the result of the last
RECURSIVE Replay(_, _, _)
Replay(this, script, i) ==
  IF i > Len(script) THEN this
  ELSE Bind(applyMove(this, [playerID |-> script[i][1], board |-> script[i][2],
                             row |-> script[i][3], col |-> script[i][4],
                             gamePiece |-> sentPiece(script[i][1])]).this,
            LAMBDA after : Replay(after, script, i + 1))

\* test lines 121-124: player1 and player2 have joined
Seated == _join(_join(NewGame, "player1").this, "player2").this

\* one of the openings has been played, every call of it accepted
InitLate ==
  /\ \E script \in Openings :
       /\ Replay(Seated, script, 1).moveCount = Len(script)
       /\ Holds(Replay(Seated, script, 1))
  /\ lastResult = "moved"

MoveLate ==
  /\ _moveCount < MaxLateMoves
  /\ \E given \in MoveInputs(AllCells) : Commit(applyMove(This, given), "moved")

NextLate == JoinStep \/ LeaveStep \/ MoveLate

SpecLate == InitLate /\ [][NextLate]_vars

(***************************************************************************)
(* Vocabulary of the properties                                            *)
(***************************************************************************)
\* the calls the properties of Spec and of SpecLate range over
SpecInputs == MoveInputs(CellsUpTo(NumCells))

LateInputs == MoveInputs(AllCells)

ErrorMessages ==
  {PLAYER_ALREADY_IN_GAME_MESSAGE, GAME_FULL_MESSAGE, PLAYER_NOT_IN_GAME_MESSAGE,
   GAME_NOT_IN_PROGRESS_MESSAGE, INVALID_MOVE_MESSAGE, MOVE_NOT_YOUR_TURN_MESSAGE}

OtherPiece(piece) == IF piece = "X" THEN "O" ELSE "X"

\* the mark a submitted move resolves to in the current state
ResolvedPiece(given) == IF given.playerID = state.x THEN "X" ELSE "O"

\* the mark on the targeted cell in the current state, "" when it is empty
TargetCell(given) == BoardCell(_games[given.board], given.row, given.col)

TargetVisible(given) == state.publiclyVisible[given.board][given.row][given.col]

\* the targeted board is terminal with a non-empty log
TargetBoardClosed(given) ==
  _games[given.board].status = "OVER" /\ Len(_games[given.board].moves) # 0

\* the targeted cell is revealed, or bears the mover's own mark
TargetCellClosed(given) ==
  \/ TargetCell(given) # "" /\ TargetVisible(given)
  \/ TargetCell(given) = ResolvedPiece(given)

OutOfParity(given) == ResolvedPiece(given) # (IF _moveCount % 2 = 0 THEN "X" ELSE "O")

SomeVisible == \E b \in Boards, r \in Coords, c \in Coords : state.publiclyVisible[b][r][c]

AllBoardsTerminal == \A b \in Boards : _games[b].status = "OVER"

BothSeated == state.x # undefined /\ state.o # undefined

(***************************************************************************)
(* C1                                                                      *)
(***************************************************************************)
\* C1: the global move log alternates marks, X on the even positions (counted
\* from 0) and O on the odd ones, collisions included; its length is the one
\* global counter _moveCount, and a move is accepted only for the mark of that
\* counter's parity.
C1_LogAlternates ==
  /\ Len(state.moves) = _moveCount
  /\ \A i \in 1..Len(state.moves) :
       state.moves[i].gamePiece = (IF (i - 1) % 2 = 0 THEN "X" ELSE "O")
  /\ \A given \in SpecInputs :
       applyMove(This, given).err = NoError => ~OutOfParity(given)

\* three moves are logged, one of them a collision
C1_Witness == Len(state.moves) = 3 /\ SomeVisible /\ lastResult = "moved"

(***************************************************************************)
(* C2                                                                      *)
(***************************************************************************)
\* C2 as stated: a move whose resolved mark is not the mark of the turn parity
\* is rejected with OutOfTurn and changes nothing.
C2_OutOfParityIsOutOfTurn ==
  \A given \in SpecInputs :
    OutOfParity(given) =>
      /\ applyMove(This, given).err = MOVE_NOT_YOUR_TURN_MESSAGE
      /\ applyMove(This, given).this = This

\* C2 as amended: a move whose resolved mark is not the mark of the turn parity
\* is always rejected and changes nothing; the error is IllegalTarget when the
\* target is closed (terminal board with a log, revealed cell, own mark) and
\* OutOfTurn otherwise.
C2_OutOfParityRejected ==
  \A given \in SpecInputs :
    OutOfParity(given) =>
      /\ applyMove(This, given).err =
           (IF TargetBoardClosed(given) \/ TargetCellClosed(given)
            THEN INVALID_MOVE_MESSAGE ELSE MOVE_NOT_YOUR_TURN_MESSAGE)
      /\ applyMove(This, given).this = This

\* a call was just rejected with OutOfTurn after a move had been accepted
C2_Witness == lastResult = MOVE_NOT_YOUR_TURN_MESSAGE /\ _moveCount > 0

(***************************************************************************)
(* C3                                                                      *)
(***************************************************************************)
\* C3: a join, leave or applyMove that is rejected leaves the seats, status,
\* winner, logs, visibility, scores, turn index and the three boards as they
\* were.
C3_AtomicOrReject ==
  [][lastResult' \in ErrorMessages =>
       UNCHANGED <<state, _games, _xScore, _oScore, _moveCount>>]_vars

\* a call was just rejected in a match that has a collision behind it
C3_Witness == lastResult \in ErrorMessages /\ SomeVisible

(***************************************************************************)
(* C4                                                                      *)
(***************************************************************************)
\* C4 as stated: applyMove raises the first applicable error in the order
\* (a) match not in progress, (b) target board terminal with a log, (c) target
\* cell revealed or the mover's own, (d) resolved mark out of parity; so every
\* applyMove while the status is not in-progress ends in MatchNotInProgress.
C4_StatusCheckedFirst ==
  \A given \in LateInputs :
    applyMove(This, given).err =
      (IF state.status # "IN_PROGRESS" THEN GAME_NOT_IN_PROGRESS_MESSAGE
       ELSE IF TargetBoardClosed(given) THEN INVALID_MOVE_MESSAGE
       ELSE IF TargetCellClosed(given) THEN INVALID_MOVE_MESSAGE
       ELSE IF OutOfParity(given) THEN MOVE_NOT_YOUR_TURN_MESSAGE
       ELSE NoError)

\* C4 as amended: applyMove raises the first applicable error in the order
\* (b) target board terminal with a log, (c) target cell revealed or the
\* mover's own, (d) resolved mark out of parity, (a) match not in progress;
\* every applyMove while the status is not in-progress is rejected, with
\* MatchNotInProgress only when the target is open and the mark is in parity.
C4_StatusCheckedLast ==
  \A given \in LateInputs :
    /\ applyMove(This, given).err =
         (IF TargetBoardClosed(given) THEN INVALID_MOVE_MESSAGE
          ELSE IF TargetCellClosed(given) THEN INVALID_MOVE_MESSAGE
          ELSE IF OutOfParity(given) THEN MOVE_NOT_YOUR_TURN_MESSAGE
          ELSE IF state.status # "IN_PROGRESS" THEN GAME_NOT_IN_PROGRESS_MESSAGE
          ELSE NoError)
    /\ state.status # "IN_PROGRESS" => applyMove(This, given).err # NoError

\* a move on an open target by the player to move was just rejected because
\* the match is over
C4_Witness ==
  /\ lastResult = GAME_NOT_IN_PROGRESS_MESSAGE
  /\ state.status = "OVER"
  /\ \E given \in LateInputs : TargetBoardClosed(given)

(***************************************************************************)
(* C5                                                                      *)
(***************************************************************************)
\* C5: a move submitted by a player who holds neither seat is never accepted
\* (the claim: it is rejected with NotSeated and changes nothing).
C5_UnseatedNeverMoves ==
  \A given \in SpecInputs :
    (given.playerID # state.x /\ given.playerID # state.o) =>
      applyMove(This, given).err # NoError

(***************************************************************************)
(* C6                                                                      *)
(***************************************************************************)
\* C6: a visibility flag that is true stays true, and every applyMove on a
\* cell whose flag is true is rejected with IllegalTarget and changes nothing,
\* whoever submits it.
C6_VisibleIsFinal ==
  /\ [][\A b \in Boards, r \in Coords, c \in Coords :
          state.publiclyVisible[b][r][c] => state'.publiclyVisible[b][r][c]]_vars
  /\ [](\A given \in SpecInputs :
          TargetVisible(given) =>
            /\ applyMove(This, given).err = INVALID_MOVE_MESSAGE
            /\ applyMove(This, given).this = This)

\* Two moves are logged and the second was a collision, so the one occupied
\* cell is revealed; the call just rejected with IllegalTarget targeted it.
C6_Witness ==
  /\ lastResult = INVALID_MOVE_MESSAGE
  /\ Len(state.moves) = 2
  /\ SomeVisible

(***************************************************************************)
(* C7                                                                      *)
(***************************************************************************)
\* the grids of all three boards of an object
Grids(this) ==
  [b \in Boards |-> [cell \in AllCells |-> BoardCell(this.games[b], cell[1], cell[2])]]

\* C7: an accepted applyMove onto a hidden cell holding the opposing mark sets
\* the cell's visibility flag, appends the incoming move to the global log,
\* leaves every grid as it was (the cell keeps the opposing mark), and advances
\* the turn so that no move of the mover's mark is accepted next.
C7_Collision ==
  \A given \in SpecInputs :
    LET result == applyMove(This, given)
        piece  == ResolvedPiece(given)
    IN  (/\ TargetCell(given) = OtherPiece(piece)
         /\ ~TargetVisible(given)
         /\ result.err = NoError) =>
          /\ result.this.state.publiclyVisible[given.board][given.row][given.col]
          /\ result.this.state.moves =
               Append(state.moves, [board |-> given.board, row |-> given.row,
                                    col |-> given.col, gamePiece |-> piece])
          /\ Grids(result.this) = Grids(This)
          /\ result.this.moveCount = _moveCount + 1
          /\ \A next \in SpecInputs :
               applyMove(result.this, next).err = NoError =>
                 cleanPiece(result.this, next.playerID) = OtherPiece(piece)

\* the second accepted move was a collision and has just been applied
C7_Witness ==
  /\ lastResult = "moved"
  /\ Len(state.moves) = 2
  /\ state.moves[1].gamePiece # state.moves[2].gamePiece
  /\ state.publiclyVisible[state.moves[2].board][state.moves[2].row][state.moves[2].col]

C9_WinnerUnsetIffTie ==
  state.status = "OVER" => ((state.winner = undefined) <=> (state.xScore = state.oScore))

\* C9 as amended: when the match is over with both seats occupied (it ended by
\* its last board becoming terminal), the winner is unset exactly when the
\* scores are equal; a match ended by a player leaving has the remaining
\* player as winner whatever the scores.
C9_WinnerUnsetIffTieByPlay ==
  (state.status = "OVER" /\ BothSeated) =>
    ((state.winner = undefined) <=> (state.xScore = state.oScore))

\* the match has just ended in a tie: one board each and a drawn board
C9_Witness ==
  /\ lastResult = "moved"
  /\ state.status = "OVER"
  /\ BothSeated
  /\ state.winner = undefined
  /\ state.xScore = 1
  /\ state.oScore = 1

C11_StatusOnlyForward ==
  [][/\ state.status = "OVER" => state'.status = "OVER"
     /\ state.status = "IN_PROGRESS" => state'.status # "WAITING_TO_START"
     /\ state'.status = "WAITING_TO_START" => state.status = "WAITING_TO_START"]_vars

(***************************************************************************)
(* C12                                                                     *)
(***************************************************************************)
\* A winner is set while a board is still open only by a player leaving a
\* match in progress: play sets a winner only once all boards are terminal.
LeftInProgress == state.winner # undefined /\ ~AllBoardsTerminal

\* C12: a leave accepted from a seated player while the match is in progress
\* makes the match over at once, with the other seated player as winner, the
\* leaver's seat vacated and the other seat kept; and once a player has left a
\* match in progress no applyMove is accepted any more.
C12_LeaveEndsMatch ==
  [][/\ (state.status = "IN_PROGRESS" /\ lastResult' = "left") =>
          /\ state'.status = "OVER"
          /\ \/ state'.x = undefined /\ state'.o = state.o /\ state'.winner = state.o
             \/ state'.o = undefined /\ state'.x = state.x /\ state'.winner = state.x
     /\ LeftInProgress => lastResult' # "moved"]_vars

(***************************************************************************)
(* C13                                                                     *)
(***************************************************************************)
\* the one seated player of a match that is waiting to start
OnlySeated(player) ==
  /\ state.status = "WAITING_TO_START"
  /\ \/ state.x = player /\ state.o = undefined
     \/ state.o = player /\ state.x = undefined

\* C13: when the only seated player leaves a match that is waiting to start,
\* the match is reset: seats empty, log empty, scores 0, no cell visible, no
\* winner, status waiting to start, boards and turn counter as constructed; and
\* the next join seats its player as X.
C13_ResetBeforeStart ==
  \A player \in Players :
    OnlySeated(player) =>
      LET left == _leave(This, player)
      IN  /\ left.err = NoError
          /\ left.this = NewGame
          /\ \A next \in Players :
               /\ _join(left.this, next).err = NoError
               /\ _join(left.this, next).this.state.x = next

\* the one seated player has just left and the match is as constructed
C13_Witness == lastResult = "left" /\ state = NewGame.state

(***************************************************************************)
(* C14                                                                     *)
(***************************************************************************)
IsSeated(player) == state.x = player \/ state.o = player

\* C14: a join by a seated player is rejected with AlreadySeated, a join by
\* another player while both seats are taken is rejected with SeatsFull, and
\* either way the object (seats, status, boards) is as before.
C14_JoinRejected ==
  \A player \in Players :
    /\ IsSeated(player) => _join(This, player) = Throw(This, PLAYER_ALREADY_IN_GAME_MESSAGE)
    /\ (BothSeated /\ ~IsSeated(player)) => _join(This, player) = Throw(This, GAME_FULL_MESSAGE)

\* a third player's join has just been rejected, both seats being taken
C14_Witness == lastResult = GAME_FULL_MESSAGE /\ BothSeated

(***************************************************************************)
(* C15                                                                     *)
(***************************************************************************)
\* C15: an accepted join seats its player as X if seat X is empty and as O
\* otherwise, and leaves the other seat alone; the status after it is in
\* progress exactly when both seats are then taken, and is unchanged
\* otherwise; the first join of a fresh match leaves it waiting to start with
\* seat O empty; a match waiting to start never has both seats taken.
C15_JoinSeats ==
  /\ \A player \in Players :
       LET joined == _join(This, player)
           after  == joined.this.state
           both   == after.x # undefined /\ after.o # undefined
       IN  joined.err = NoError =>
             /\ IF state.x = undefined
                THEN after.x = player /\ after.o = state.o
                ELSE after.o = player /\ after.x = state.x
             /\ after.status = "IN_PROGRESS" <=> both
             /\ ~both => after.status = state.status
             /\ This = NewGame =>
                  after.status = "WAITING_TO_START" /\ after.o = undefined
  /\ state.status = "WAITING_TO_START" => ~BothSeated

\* the first join of the match was just accepted
C15_Witness ==
  /\ lastResult = "joined"
  /\ state.status = "WAITING_TO_START"
  /\ state.x # undefined
  /\ state.o = undefined

(***************************************************************************)
(* C16                                                                     *)
(***************************************************************************)
\* the board is terminal with a non-empty log
BoardClosed(b) == _games[b].status = "OVER" /\ Len(_games[b].moves) # 0

\* C16: a board that is terminal with a non-empty log keeps its log, and with
\* it its grid, its status and its winning mark in every step, and every
\* applyMove on any of its cells is rejected with IllegalTarget and changes
\* nothing, also a move onto an empty cell by the player whose turn it is.
C16_TerminalBoardClosed ==
  /\ [][\A b \in Boards : BoardClosed(b) => _games'[b] = _games[b]]_vars
  /\ [](\A given \in LateInputs :
          TargetBoardClosed(given) =>
            applyMove(This, given) = Throw(This, INVALID_MOVE_MESSAGE))

\* A move was accepted after the opening and a call has then been rejected with
\* IllegalTarget, while an empty cell of a closed board is open to the player
\* whose turn it is as far as cell and turn go.
C16_Witness ==
  /\ lastResult = INVALID_MOVE_MESSAGE
  /\ state.status = "IN_PROGRESS"
  /\ _moveCount = 15
  /\ \E given \in LateInputs :
       /\ TargetBoardClosed(given)
       /\ TargetCell(given) = ""
       /\ ~OutOfParity(given)

(***************************************************************************)
(* C17                                                                     *)
(***************************************************************************)
\* the step is an accepted applyMove: the global log has grown by one entry
MoveAccepted == Len(state'.moves) = Len(state.moves) + 1

\* the board the move of the step targeted
TargetOfStep == state'.moves[Len(state'.moves)].board

\* the step has appended one pass to the local log of board b
PassAppended(b) ==
  /\ Len(_games'[b].moves) = Len(_games[b].moves) + 1
  /\ SubSeq(_games'[b].moves, 1, Len(_games[b].moves)) = _games[b].moves
  /\ _games'[b].moves[Len(_games'[b].moves)].row = Blank
  /\ _games'[b].moves[Len(_games'[b].moves)].col = Blank

BoardsWonBy(piece) == {b \in Boards : _games[b].status = "OVER" /\ _games[b].winner = piece}

\* C18: xScore is the number of boards won by X and oScore the number of
\* boards won by O, drawn and open boards counting for neither and no board
\* for both, and the two scores add up to 3 at most; the private scores that
\* decide the winner are the same numbers.
C18_ScoresCountBoards ==
  /\ state.xScore = Cardinality(BoardsWonBy("X"))
  /\ state.oScore = Cardinality(BoardsWonBy("O"))
  /\ BoardsWonBy("X") \cap BoardsWonBy("O") = {}
  /\ state.xScore + state.oScore <= 3
  /\ _xScore = state.xScore
  /\ _oScore = state.oScore

\* the move just accepted drew the last board, one board each being won
C18_Witness ==
  /\ lastResult = "moved"
  /\ \E b \in Boards : _games[b].status = "OVER" /\ _games[b].winner = undefined
  /\ Cardinality(BoardsWonBy("X")) = 1
  /\ Cardinality(BoardsWonBy("O")) = 1

(***************************************************************************)
(* C19                                                                     *)
(***************************************************************************)
\* the mark of the seat a seated player holds
SeatPiece(player) == IF state.x = player THEN "X" ELSE "O"

\* the entries of a log that are moves on a cell, passes left out
RealMoves(moves) == {i \in 1..Len(moves) : moves[i].row # Blank}

C20_OwnCellRejected ==
  \A given \in SpecInputs :
    TargetCell(given) = ResolvedPiece(given) =>
      applyMove(This, given) = Throw(This, INVALID_MOVE_MESSAGE)

\* X and O have each marked a cell, no cell is revealed, it is X's turn and X
\* has just been refused: the refused call was on a cell of the caller's mark
C20_Witness ==
  /\ lastResult = INVALID_MOVE_MESSAGE
  /\ Len(state.moves) = 2
  /\ ~SomeVisible
  /\ \E given \in SpecInputs :
       TargetCell(given) = ResolvedPiece(given) /\ ~OutOfParity(given)

(***************************************************************************)
(* C21                                                                     *)
(***************************************************************************)
\* the grids of an object but for one cell of one board
GridsBut(this, board, row, col) ==
  [b \in Boards |-> [cell \in AllCells |->
     IF b = board /\ cell = <<row, col>> THEN "" ELSE BoardCell(this.games[b], cell[1], cell[2])]]

\* C21: an accepted applyMove on an empty cell puts the mark the submitter
\* resolves to on the targeted cell of the targeted board, appends the move to
\* the global log and to that board's log, and changes no visibility flag and
\* no other cell of any board.
C21_PlainMove ==
  \A given \in LateInputs :
    \A result \in {applyMove(This, given)} :
      (result.err = NoError /\ TargetCell(given) = "") =>
        \A piece \in {ResolvedPiece(given)} :
          /\ BoardCell(result.this.games[given.board], given.row, given.col) = piece
          /\ result.this.state.moves =
               Append(state.moves, [board |-> given.board, row |-> given.row,
                                    col |-> given.col, gamePiece |-> piece])
          /\ result.this.games[given.board].moves =
               Append(_games[given.board].moves,
                      [row |-> given.row, col |-> given.col, gamePiece |-> piece])
          /\ result.this.state.publiclyVisible = state.publiclyVisible
          /\ GridsBut(result.this, given.board, given.row, given.col)
               = GridsBut(This, given.board, given.row, given.col)

\* the move just accepted went onto an empty cell: its cell is not revealed
\* and holds its mark
C21_Witness ==
  /\ lastResult = "moved"
  /\ Len(state.moves) = 15
  /\ \A last \in {state.moves[15]} :
       /\ ~state.publiclyVisible[last.board][last.row][last.col]
       /\ BoardCell(_games[last.board], last.row, last.col) = last.gamePiece

(***************************************************************************)
(* C22                                                                     *)
(***************************************************************************)
\* C22: an accepted applyMove, collision or not, adds one to the turn index
\* and one entry to the end of the global log, the earlier entries staying;
\* every other call, accepted or rejected, leaves the turn index and the log
\* as they are; the turn index never decreases; and the global log is always
\* as long as the turn index.
C22_TurnIndex ==
  /\ [][/\ lastResult' = "moved" =>
             /\ _moveCount' = _moveCount + 1
             /\ Len(state'.moves) = Len(state.moves) + 1
             /\ SubSeq(state'.moves, 1, Len(state.moves)) = state.moves
        /\ lastResult' # "moved" =>
             /\ _moveCount' = _moveCount
             /\ state'.moves = state.moves
        /\ _moveCount' >= _moveCount]_vars
  /\ [](Len(state.moves) = _moveCount)

\* a move and a collision have been accepted and a player has then left: the
\* turn index is 2 still
C22_Witness ==
  /\ lastResult = "left"
  /\ _moveCount = 2
  /\ Len(state.moves) = 2
  /\ SomeVisible

(***************************************************************************)
(* C23                                                                     *)
(***************************************************************************)
\* the moves of a log that are on the cell
MovesOn(moves, row, col) == {i \in 1..Len(moves) : moves[i].row = row /\ moves[i].col = col}

\* C23: the log of a board holds at most one move that is not a pass per cell;
\* an accepted move onto an occupied cell adds a pass to the log of its board,
\* and no move on that cell is accepted after it.
C23_OneRealMovePerCell ==
  /\ \A b \in Boards, cell \in AllCells :
       Cardinality(MovesOn(_games[b].moves, cell[1], cell[2])) <= 1
  /\ \A given \in SpecInputs :
       \A result \in {applyMove(This, given)} :
         (result.err = NoError /\ TargetCell(given) # "") =>
           /\ result.this.games[given.board].moves =
                Append(_games[given.board].moves,
                       [row |-> Blank, col |-> Blank, gamePiece |-> TargetCell(given)])
           /\ \A player \in Players :
                applyMove(result.this, [given EXCEPT !.playerID = player]).err # NoError

\* the second move of the match was a collision: its board has logged one
\* move on the cell and then a pass
C23_Witness ==
  /\ lastResult = "moved"
  /\ Len(state.moves) = 2
  /\ \A last \in {state.moves[2]} :
       /\ Cardinality(MovesOn(_games[last.board].moves, last.row, last.col)) = 1
       /\ _games[last.board].moves[2].row = Blank
       /\ state.moves[1].board = last.board

(***************************************************************************)
(* C24                                                                     *)
(***************************************************************************)
\* the global log holds a move of the mark at the coordinate
LoggedAt(b, r, c, piece) ==
  \E i \in 1..Len(state.moves) :
    /\ state.moves[i].board = b
    /\ state.moves[i].row = r
    /\ state.moves[i].col = c
    /\ state.moves[i].gamePiece = piece

\* C24: a cell is visible only if the global log holds a move of X and a move
\* of O at its coordinate, and only if it is occupied; a visibility flag turns
\* true only in a step that accepts a move at that coordinate onto an
\* occupied cell.
C24_VisibleMeansCollision ==
  /\ [](\A b \in Boards, r \in Coords, c \in Coords :
          state.publiclyVisible[b][r][c] =>
            /\ LoggedAt(b, r, c, "X")
            /\ LoggedAt(b, r, c, "O")
            /\ BoardCell(_games[b], r, c) # "")
  /\ [][\A b \in Boards, r \in Coords, c \in Coords :
          (~state.publiclyVisible[b][r][c] /\ state'.publiclyVisible[b][r][c]) =>
            /\ MoveAccepted
            /\ lastResult' = "moved"
            /\ TargetOfStep = b
            /\ state'.moves[Len(state'.moves)].row = r
            /\ state'.moves[Len(state'.moves)].col = c
            /\ BoardCell(_games[b], r, c) # ""]_vars

\* the third move of the match was a collision with the first or the second
C24_Witness ==
  /\ lastResult = "moved"
  /\ Len(state.moves) = 3
  /\ \A last \in {state.moves[3]} : state.publiclyVisible[last.board][last.row][last.col]

(***************************************************************************)
(* C25                                                                     *)
(***************************************************************************)
\* the score of a mark in an object's state
ScoreOf(this, piece) == IF piece = "X" THEN this.state.xScore ELSE this.state.oScore

\* C25: a board on which a mark holds a full row, column or diagonal, revealed
\* cells counting for the mark they hold, is won by that mark; and the
\* accepted move that completes the line adds one to that mark's score and
\* leaves the other score as it is.
C25_RevealedCellsCount ==
  /\ \A b \in Boards, piece \in {"X", "O"} :
       HasLine(_games[b], piece) => _games[b].status = "OVER" /\ _games[b].winner = piece
  /\ \A given \in LateInputs :
       \A result \in {applyMove(This, given)} :
         result.err = NoError =>
           \A piece \in {"X", "O"} :
             (/\ HasLine(result.this.games[given.board], piece)
              /\ ~HasLine(_games[given.board], piece)) =>
               /\ result.this.games[given.board].status = "OVER"
               /\ result.this.games[given.board].winner = piece
               /\ ScoreOf(result.this, piece) = ScoreOf(This, piece) + 1
               /\ ScoreOf(result.this, OtherPiece(piece)) = ScoreOf(This, OtherPiece(piece))

\* the move just accepted completed a line of its mark that has a revealed cell
C25_Witness ==
  /\ lastResult = "moved"
  /\ Len(state.moves) = 15
  /\ \A last \in {state.moves[15]} :
       \E line \in Lines :
         /\ <<last.row, last.col>> \in line
         /\ \A cell \in line : BoardCell(_games[last.board], cell[1], cell[2]) = last.gamePiece
         /\ \E cell \in line : state.publiclyVisible[last.board][cell[1]][cell[2]]

(***************************************************************************)
(* C26                                                                     *)
(***************************************************************************)
\* C26: a leave by a player who holds neither seat is rejected with NotSeated
\* whatever the status, and the object (seats, status, winner, logs,
\* visibility, scores, boards) is as before.
C26_LeaveUnseated ==
  \A player \in Players :
    ~IsSeated(player) => _leave(This, player) = Throw(This, PLAYER_NOT_IN_GAME_MESSAGE)

\* a leave was just rejected in a match that a move was played in
C26_Witness ==
  /\ lastResult = PLAYER_NOT_IN_GAME_MESSAGE
  /\ state.status = "IN_PROGRESS"
  /\ Len(state.moves) = 1

(***************************************************************************)
(* C27                                                                     *)
(***************************************************************************)
\* what a collision leaves alone and what it changes apart from the boards'
\* logs: grids, boards' status and winning mark, scores, seats, match status
\* and winner stay; the flag of the targeted cell is set, the global log and
\* the turn index grow by one
CollisionFrame(given, after) ==
  /\ Grids(after) = Grids(This)
  /\ \A b \in Boards :
       /\ after.games[b].status = _games[b].status
       /\ after.games[b].winner = _games[b].winner
  /\ after.state.xScore = state.xScore /\ after.state.oScore = state.oScore
  /\ after.xScore = _xScore /\ after.oScore = _oScore
  /\ after.state.x = state.x /\ after.state.o = state.o
  /\ after.state.status = state.status /\ after.state.winner = state.winner
  /\ after.state.publiclyVisible =
       [state.publiclyVisible EXCEPT ![given.board][given.row][given.col] = TRUE]
  /\ after.state.moves =
       Append(state.moves, [board |-> given.board, row |-> given.row,
                            col |-> given.col, gamePiece |-> ResolvedPiece(given)])
  /\ after.moveCount = _moveCount + 1

\* the log of board b after a pass of the mark on the targeted cell
WithPass(given, b) ==
  Append(_games[b].moves, [row |-> Blank, col |-> Blank, gamePiece |-> TargetCell(given)])

PlayerToMove == IF _moveCount % 2 = 0 THEN state.x ELSE state.o

\* the targeted cell is on a board in progress and is empty or holds the mark
\* of the other side, not revealed
TargetOpen(given) ==
  /\ _games[given.board].status = "IN_PROGRESS"
  /\ \/ TargetCell(given) = ""
     \/ TargetCell(given) = OtherPiece(ResolvedPiece(given)) /\ ~TargetVisible(given)

\* C28: while the match is in progress the player whose turn it is has a move
\* that is accepted, on a cell of a board in progress that is empty or holds
\* the other side's unrevealed mark.
C28_NoDeadlock ==
  state.status = "IN_PROGRESS" =>
    \E given \in LateInputs :
      /\ given.playerID = PlayerToMove
      /\ TargetOpen(given)
      /\ applyMove(This, given).err = NoError

\* the match is in progress after a move, two boards are terminal and the
\* third has one empty cell left
C28_Witness ==
  /\ lastResult = "moved"
  /\ state.status = "IN_PROGRESS"
  /\ Len(state.moves) = 15
  /\ Cardinality({b \in Boards : _games[b].status = "OVER"}) = 2
  /\ \E b \in Boards :
       /\ _games[b].status = "IN_PROGRESS"
       /\ Cardinality({cell \in AllCells : BoardCell(_games[b], cell[1], cell[2]) = ""}) = 1

(***************************************************************************)
(* Play to the end: the match X wins in the test suite, played on from its *)
(* opening with nobody leaving, a legal move being submitted in the end    *)
(***************************************************************************)
InitFair ==
  /\ Replay(Seated, XWinsOpening, 1).moveCount = Len(XWinsOpening)
  /\ Holds(Replay(Seated, XWinsOpening, 1))
  /\ lastResult = "moved"

\* the calls of the player to move on the cells of the boards in progress
FairInputs ==
  {given \in MoveInputs(AllCells) :
     given.playerID = PlayerToMove /\ _games[given.board].status = "IN_PROGRESS"}

\* an applyMove of the player to move, accepted or rejected
MoveToMove ==
  /\ \E given \in FairInputs : Commit(applyMove(This, given), "moved")

\* an applyMove that is accepted: the one call that advances the turn index
MoveLegal ==
  /\ _moveCount' = _moveCount + 1
  /\ \E given \in FairInputs :
       \E result \in {applyMove(This, given)} :
         /\ result.err = NoError
         /\ Commit(result, "moved")

NextFair == MoveToMove

SpecFair == InitFair /\ [][NextFair]_vars /\ WF_vars(MoveLegal)

(***************************************************************************)
(* C29                                                                     *)
(***************************************************************************)
\* the most moves a match can take: every cell filled once and revealed once
MaxMatchMoves == 2 * Cardinality(Boards) * BoardSize * BoardSize

\* the cells that hold a mark and the cells that are revealed, over all boards
FilledCells ==
  {<<b, cell>> \in Boards \X AllCells : BoardCell(_games[b], cell[1], cell[2]) # ""}

VisibleCells ==
  {<<b, cell>> \in Boards \X AllCells : state.publiclyVisible[b][cell[1]][cell[2]]}

\* C29: an accepted applyMove fills the cell it targets, which was empty, or
\* turns that cell's visibility flag from false to true; so the number of
\* accepted moves is the number of filled cells plus the number of revealed
\* cells, 54 at most; and when nobody leaves and a legal move is always
\* submitted in the end, a match in progress comes to be over.
C29_MatchEnds ==
  /\ [][MoveAccepted =>
          \A last \in {state'.moves[Len(state'.moves)]} :
            \/ /\ BoardCell(_games[last.board], last.row, last.col) = ""
               /\ BoardCell(_games'[last.board], last.row, last.col) # ""
               /\ state'.publiclyVisible = state.publiclyVisible
            \/ /\ ~state.publiclyVisible[last.board][last.row][last.col]
               /\ state'.publiclyVisible =
                    [state.publiclyVisible EXCEPT ![last.board][last.row][last.col] = TRUE]
               /\ BoardCell(_games'[last.board], last.row, last.col)
                    = BoardCell(_games[last.board], last.row, last.col)]_vars
  /\ [](/\ _moveCount = Cardinality(FilledCells) + Cardinality(VisibleCells)
        /\ _moveCount <= MaxMatchMoves)
  /\ (state.status = "IN_PROGRESS") ~> (state.status = "OVER")

\* the match was played on from its opening for five moves and more and the
\* last of them ended it
C29_Witness ==
  /\ lastResult = "moved"
  /\ state.status = "OVER"
  /\ AllBoardsTerminal
  /\ _moveCount >= 19

====
